---- MODULE Spec2Model ----
(***************************************************************************)
(* Display configuration manifest faculty_desk_unit/User_Setup.h of the    *)
(* ConsultEase Faculty Desk Unit, and its translation by the C             *)
(* preprocessor.  The header is a list of lines; the preprocessor reads    *)
(* them in file order, removes // comments, and executes the directive     *)
(* that is left.  The state is the macro table the driver library sees.    *)
(***************************************************************************)
EXTENDS Integers, Sequences, FiniteSets

VARIABLES pc, phase, cur, macros, history

vars == <<pc, phase, cur, macros, history>>

----------------------------------------------------------------------------
(* Preprocessing tokens.  k is the kind, s the spelling, n the value of a   *)
(* number.                                                                  *)

Dir(d)   == [k |-> "dir",   s |-> d,    n |-> 0]
Id(x)    == [k |-> "id",    s |-> x,    n |-> 0]
Num(v)   == [k |-> "num",   s |-> "",   n |-> v]
Punct(p) == [k |-> "punct", s |-> p,    n |-> 0]
Str(t)   == [k |-> "str",   s |-> t,    n |-> 0]
Txt(t)   == [k |-> "txt",   s |-> t,    n |-> 0]
Cmt      == [k |-> "cmt",   s |-> "//", n |-> 0]

Blank == <<>>

----------------------------------------------------------------------------
(* The lines of User_Setup.h, section by section, in file order.           *)

\* lines 1-5
HeaderSection ==
  << <<Cmt, Txt("User setup file for the TFT_eSPI library for the ConsultEase Faculty Desk Unit")>>,
     <<Cmt, Txt("For ESP32 with 2.4\" TFT SPI Display (ST7789)")>>,
     Blank,
     <<Cmt, Txt("=> Copy this file to the libraries/TFT_eSPI folder in your Arduino IDE")>>,
     Blank >>

\* lines 6-7
InfoSection ==
  << <<Dir("define"), Id("USER_SETUP_INFO"), Str("ConsultEase Faculty Desk Unit")>>,
     Blank >>

\* lines 8-10
BoardSection ==
  << <<Cmt, Txt("Define the ESP32 board")>>,
     <<Dir("define"), Id("ESP32_PARALLEL")>>,
     Blank >>

\* lines 11-13
ParallelSection ==
  << <<Cmt, Txt("Comment out the next line to use SPI interface instead of parallel")>>,
     <<Cmt, Dir("define"), Id("TFT_PARALLEL_8_BIT")>>,
     Blank >>

\* lines 14-16
DriverSection ==
  << <<Cmt, Txt("Display driver")>>,
     <<Dir("define"), Id("ST7789_DRIVER")>>,
     Blank >>

\* GeometrySection with the offset flag commented out.
GeometrySectionNoOffset ==
  << <<Cmt, Txt("Display resolution")>>,
     <<Dir("define"), Id("TFT_WIDTH"), Num(240)>>,
     <<Dir("define"), Id("TFT_HEIGHT"), Num(320)>>,
     Blank,
     <<Cmt, Txt("For ST7789 display in Landscape orientation")>>,
     <<Cmt, Dir("define"), Id("CGRAM_OFFSET")>>,
     Blank >>

\* lines 17-23
GeometrySection ==
  << <<Cmt, Txt("Display resolution")>>,
     <<Dir("define"), Id("TFT_WIDTH"), Num(240)>>,
     <<Dir("define"), Id("TFT_HEIGHT"), Num(320)>>,
     Blank,
     <<Cmt, Txt("For ST7789 display in Landscape orientation")>>,
     <<Dir("define"), Id("CGRAM_OFFSET")>>,
     Blank >>

\* FrequencySection with the comment marker on the other rate.
FrequencySectionOverclocked ==
  << <<Cmt, Txt("Color depth")>>,
     <<Cmt, Dir("define"), Id("SPI_FREQUENCY"), Num(27000000),
       Cmt, Txt("Works with SPI display")>>,
     <<Dir("define"), Id("SPI_FREQUENCY"), Num(40000000),
       Cmt, Txt("Maximum for ST7789 but might be unstable")>>,
     Blank >>

\* FrequencySection with both rates active: the second redefines the first.
FrequencySectionBothActive ==
  << <<Cmt, Txt("Color depth")>>,
     <<Dir("define"), Id("SPI_FREQUENCY"), Num(27000000),
       Cmt, Txt("Works with SPI display")>>,
     <<Dir("define"), Id("SPI_FREQUENCY"), Num(40000000),
       Cmt, Txt("Maximum for ST7789 but might be unstable")>>,
     Blank >>

\* lines 24-27
FrequencySection ==
  << <<Cmt, Txt("Color depth")>>,
     <<Dir("define"), Id("SPI_FREQUENCY"), Num(27000000),
       Cmt, Txt("Works with SPI display")>>,
     <<Cmt, Dir("define"), Id("SPI_FREQUENCY"), Num(40000000),
       Cmt, Txt("Maximum for ST7789 but might be unstable")>>,
     Blank >>

\* PinSection with the backlight pin left out.
PinSectionNoBacklight ==
  << <<Cmt, Txt("ESP32 Pin configuration for SPI display")>>,
     <<Cmt, Txt("VSPI port is used (/CS=GPIO5, MOSI=GPIO23, MISO=GPIO19, SCK=GPIO18)")>>,
     <<Dir("define"), Id("TFT_MISO"), Num(19)>>,
     <<Dir("define"), Id("TFT_MOSI"), Num(23)>>,
     <<Dir("define"), Id("TFT_SCLK"), Num(18)>>,
     <<Dir("define"), Id("TFT_CS"), Num(5), Cmt, Txt("Chip select control pin")>>,
     <<Dir("define"), Id("TFT_DC"), Num(2), Cmt, Txt("Data Command control pin")>>,
     <<Dir("define"), Id("TFT_RST"), Num(4), Cmt, Txt("Reset pin")>>,
     <<Cmt, Dir("define"), Id("TFT_BL"), Num(15), Cmt, Txt("LED back-light")>>,
     Blank >>

\* PinSection with data/command wired to the reset GPIO.
PinSectionSharedGpio ==
  << <<Cmt, Txt("ESP32 Pin configuration for SPI display")>>,
     <<Cmt, Txt("VSPI port is used (/CS=GPIO5, MOSI=GPIO23, MISO=GPIO19, SCK=GPIO18)")>>,
     <<Dir("define"), Id("TFT_MISO"), Num(19)>>,
     <<Dir("define"), Id("TFT_MOSI"), Num(23)>>,
     <<Dir("define"), Id("TFT_SCLK"), Num(18)>>,
     <<Dir("define"), Id("TFT_CS"), Num(5), Cmt, Txt("Chip select control pin")>>,
     <<Dir("define"), Id("TFT_DC"), Num(4), Cmt, Txt("Data Command control pin")>>,
     <<Dir("define"), Id("TFT_RST"), Num(4), Cmt, Txt("Reset pin")>>,
     <<Dir("define"), Id("TFT_BL"), Num(15), Cmt, Txt("LED back-light")>>,
     Blank >>

\* lines 28-37
PinSection ==
  << <<Cmt, Txt("ESP32 Pin configuration for SPI display")>>,
     <<Cmt, Txt("VSPI port is used (/CS=GPIO5, MOSI=GPIO23, MISO=GPIO19, SCK=GPIO18)")>>,
     <<Dir("define"), Id("TFT_MISO"), Num(19)>>,
     <<Dir("define"), Id("TFT_MOSI"), Num(23)>>,
     <<Dir("define"), Id("TFT_SCLK"), Num(18)>>,
     <<Dir("define"), Id("TFT_CS"), Num(5), Cmt, Txt("Chip select control pin")>>,
     <<Dir("define"), Id("TFT_DC"), Num(2), Cmt, Txt("Data Command control pin")>>,
     <<Dir("define"), Id("TFT_RST"), Num(4), Cmt, Txt("Reset pin")>>,
     <<Dir("define"), Id("TFT_BL"), Num(15), Cmt, Txt("LED back-light")>>,
     Blank >>

\* lines 38-40
TouchSection ==
  << <<Cmt, Txt("Touch screen chip select - set to -1 if touch is not used")>>,
     <<Dir("define"), Id("TOUCH_CS"), Punct("-"), Num(1)>>,
     Blank >>

\* lines 41-43
SpiModeSection ==
  << <<Cmt, Txt("Comment out to use SPI read for TFT")>>,
     <<Dir("define"), Id("TFT_SPI_MODE"), Id("SPI_MODE0")>>,
     Blank >>

\* FontSection with the narrow 75 pixel font switched on as well.
FontSectionNarrow ==
  << <<Cmt, Txt("Load the font files")>>,
     <<Dir("define"), Id("LOAD_GLCD"),
       Cmt, Txt("Font 1. Original Adafruit 8 pixel font needs ~1820 bytes in FLASH")>>,
     <<Dir("define"), Id("LOAD_FONT2"),
       Cmt, Txt("Font 2. Small 16 pixel high font, needs ~3534 bytes in FLASH, 96 characters")>>,
     <<Dir("define"), Id("LOAD_FONT4"),
       Cmt, Txt("Font 4. Medium 26 pixel high font, needs ~5848 bytes in FLASH, 96 characters")>>,
     <<Dir("define"), Id("LOAD_FONT6"),
       Cmt, Txt("Font 6. Large 48 pixel font, needs ~2666 bytes in FLASH, only characters 1234567890:-.apm")>>,
     <<Dir("define"), Id("LOAD_FONT7"),
       Cmt, Txt("Font 7. 7 segment 48 pixel font, needs ~2438 bytes in FLASH, only characters 1234567890:.")>>,
     <<Dir("define"), Id("LOAD_FONT8"),
       Cmt, Txt("Font 8. Large 75 pixel font needs ~3256 bytes in FLASH, only characters 1234567890:-.")>>,
     <<Dir("define"), Id("LOAD_FONT8N"),
       Cmt, Txt("Font 8 narrow, only characters 1234567890:-.")>>,
     Blank >>

\* lines 44-52
FontSection ==
  << <<Cmt, Txt("Load the font files")>>,
     <<Dir("define"), Id("LOAD_GLCD"),
       Cmt, Txt("Font 1. Original Adafruit 8 pixel font needs ~1820 bytes in FLASH")>>,
     <<Dir("define"), Id("LOAD_FONT2"),
       Cmt, Txt("Font 2. Small 16 pixel high font, needs ~3534 bytes in FLASH, 96 characters")>>,
     <<Dir("define"), Id("LOAD_FONT4"),
       Cmt, Txt("Font 4. Medium 26 pixel high font, needs ~5848 bytes in FLASH, 96 characters")>>,
     <<Dir("define"), Id("LOAD_FONT6"),
       Cmt, Txt("Font 6. Large 48 pixel font, needs ~2666 bytes in FLASH, only characters 1234567890:-.apm")>>,
     <<Dir("define"), Id("LOAD_FONT7"),
       Cmt, Txt("Font 7. 7 segment 48 pixel font, needs ~2438 bytes in FLASH, only characters 1234567890:.")>>,
     <<Dir("define"), Id("LOAD_FONT8"),
       Cmt, Txt("Font 8. Large 75 pixel font needs ~3256 bytes in FLASH, only characters 1234567890:-.")>>,
     <<Cmt, Dir("define"), Id("LOAD_FONT8N"),
       Cmt, Txt("Font 8 narrow, only characters 1234567890:-.")>>,
     Blank >>

\* lines 53-56
OptionsSection ==
  << <<Cmt, Txt("Additional options")>>,
     <<Dir("define"), Id("SMOOTH_FONT")>>,
     <<Cmt, Dir("define"), Id("SPI_TOUCH"),
       Cmt, Txt("Saves DMA channel if SPI display is used")>>,
     Blank >>

\* ColorSection with both channel orders active.
ColorSectionBothActive ==
  << <<Cmt, Txt("Swap bytes in 16-bit color transfers")>>,
     <<Dir("define"), Id("TFT_RGB_ORDER"), Id("TFT_RGB"),
       Cmt, Txt("Colour order Red-Green-Blue")>>,
     <<Dir("define"), Id("TFT_RGB_ORDER"), Id("TFT_BGR"),
       Cmt, Txt("Colour order Blue-Green-Red")>>,
     Blank >>

\* ColorSection with the comment marker on the other channel order.
ColorSectionRgb ==
  << <<Cmt, Txt("Swap bytes in 16-bit color transfers")>>,
     <<Dir("define"), Id("TFT_RGB_ORDER"), Id("TFT_RGB"),
       Cmt, Txt("Colour order Red-Green-Blue")>>,
     <<Cmt, Dir("define"), Id("TFT_RGB_ORDER"), Id("TFT_BGR"),
       Cmt, Txt("Colour order Blue-Green-Red")>>,
     Blank >>

\* lines 57-60
ColorSection ==
  << <<Cmt, Txt("Swap bytes in 16-bit color transfers")>>,
     <<Cmt, Dir("define"), Id("TFT_RGB_ORDER"), Id("TFT_RGB"),
       Cmt, Txt("Colour order Red-Green-Blue")>>,
     <<Dir("define"), Id("TFT_RGB_ORDER"), Id("TFT_BGR"),
       Cmt, Txt("Colour order Blue-Green-Red")>>,
     Blank >>

\* TransactionsSection with the flag switched on.
TransactionsSectionEnabled ==
  << <<Cmt, Txt("Avoid conflict with SUPPORT_TRANSACTIONS in the library")>>,
     <<Dir("define"), Id("SUPPORT_TRANSACTIONS")>> >>

\* lines 61-62
TransactionsSection ==
  << <<Cmt, Txt("Avoid conflict with SUPPORT_TRANSACTIONS in the library")>>,
     <<Cmt, Dir("define"), Id("SUPPORT_TRANSACTIONS")>> >>

File ==
  HeaderSection \o InfoSection \o BoardSection \o ParallelSection \o
  DriverSection \o GeometrySection \o FrequencySection \o PinSection \o
  TouchSection \o SpiModeSection \o FontSection \o OptionsSection \o
  ColorSection \o TransactionsSection

----------------------------------------------------------------------------
(* Translation of one line.                                                *)

\* Position of the first comment marker of a line, or Len(toks) + 1.
CommentStart(toks) ==
  LET marks == {i \in 1..Len(toks) : toks[i].k = "cmt"}
  IN  IF marks = {} THEN Len(toks) + 1
      ELSE CHOOSE i \in marks : \A j \in marks : i <= j

\* A // comment runs to the end of the line and is replaced by nothing.
StripComment(toks) == SubSeq(toks, 1, CommentStart(toks) - 1)

\* The line is an object-like macro definition: #define NAME replacement...
IsDefine(toks) ==
  /\ Len(toks) >= 2
  /\ toks[1] = Dir("define")
  /\ toks[2].k = "id"

MacroName(toks) == toks[2].s
Replacement(toks) == SubSeq(toks, 3, Len(toks))

\* The macro table after  #define name repl : a later definition replaces
\* an earlier one.
DefineMacro(table, name, repl) ==
  [s \in DOMAIN table \cup {name} |-> IF s = name THEN repl ELSE table[s]]

----------------------------------------------------------------------------
(* The preprocessor, line by line.                                         *)

Init ==
  /\ pc = 1
  /\ phase = "fetch"
  /\ cur = <<>>
  /\ macros = <<>>
  /\ history = <<>>

\* Read the next physical line of the file.
FetchLine ==
  /\ phase = "fetch"
  /\ pc <= Len(File)
  /\ cur' = File[pc]
  /\ phase' = "strip"
  /\ UNCHANGED <<pc, macros, history>>

\* Translation phase 3: comments are removed.
StripLine ==
  /\ phase = "strip"
  /\ cur' = StripComment(cur)
  /\ phase' = "exec"
  /\ UNCHANGED <<pc, macros, history>>

\* Translation phase 4: a #define enters the macro table.
Define ==
  /\ phase = "exec"
  /\ IsDefine(cur)
  /\ macros' = DefineMacro(macros, MacroName(cur), Replacement(cur))
  /\ history' = Append(history, [line  |-> pc,
                                 name  |-> MacroName(cur),
                                 value |-> Replacement(cur)])
  /\ pc' = pc + 1
  /\ phase' = "fetch"
  /\ cur' = <<>>

\* A line that holds nothing after comment removal changes nothing.
SkipLine ==
  /\ phase = "exec"
  /\ cur = <<>>
  /\ pc' = pc + 1
  /\ phase' = "fetch"
  /\ UNCHANGED <<cur, macros, history>>

Next == FetchLine \/ StripLine \/ Define \/ SkipLine

Spec == Init /\ [][Next]_vars

----------------------------------------------------------------------------
(* What the driver library reads from the macro table.                     *)

EndOfFile == pc = Len(File) + 1

Defined(name) == name \in DOMAIN macros

\* The value of an integer replacement list:  N  or  - N .
IntOf(repl) ==
  IF Len(repl) = 1 /\ repl[1].k = "num" THEN repl[1].n
  ELSE IF Len(repl) = 2 /\ repl[1] = Punct("-") /\ repl[2].k = "num"
       THEN 0 - repl[2].n
  ELSE 0

IsInt(repl) ==
  \/ Len(repl) = 1 /\ repl[1].k = "num"
  \/ Len(repl) = 2 /\ repl[1] = Punct("-") /\ repl[2].k = "num"

HasInt(name, v) == Defined(name) /\ IsInt(macros[name]) /\ IntOf(macros[name]) = v

HasTag(name, tag) == Defined(name) /\ macros[name] = <<Id(tag)>>

\* Number of #define directives executed for a name.
DefCount(name) == Cardinality({i \in 1..Len(history) : history[i].name = name})

----------------------------------------------------------------------------
(* Vocabulary of the claims.                                               *)

\* The tags by which the driver library selects a display controller; the
\* manifest names one of them.
ControllerTags ==
  {"ILI9341_DRIVER", "ILI9341_2_DRIVER", "ST7735_DRIVER", "ILI9163_DRIVER",
   "S6D02A1_DRIVER", "RPI_ILI9486_DRIVER", "HX8357D_DRIVER", "ILI9481_DRIVER",
   "ILI9486_DRIVER", "ILI9488_DRIVER", "ST7789_DRIVER", "ST7789_2_DRIVER",
   "R61581_DRIVER", "RM68140_DRIVER", "ST7796_DRIVER", "SSD1351_DRIVER",
   "SSD1963_480_DRIVER", "SSD1963_800_DRIVER", "GC9A01_DRIVER"}

\* The symbols that select or enable the parallel transport.
ParallelSymbols == {"ESP32_PARALLEL", "TFT_PARALLEL_8_BIT"}

\* The font symbols the manifest mentions, active or commented out, and the
\* free-font flag of the library.
FontSymbols ==
  {"LOAD_GLCD", "LOAD_FONT2", "LOAD_FONT4", "LOAD_FONT6", "LOAD_FONT7",
   "LOAD_FONT8", "LOAD_FONT8N", "LOAD_GFXFF", "SMOOTH_FONT"}

WiredPins ==
  {"TFT_MISO", "TFT_MOSI", "TFT_SCLK", "TFT_CS", "TFT_DC", "TFT_RST", "TFT_BL"}

PinSymbols == WiredPins \cup {"TOUCH_CS"}

UnusedFlags ==
  {"TFT_PARALLEL_8_BIT", "LOAD_FONT8N", "SPI_TOUCH", "SUPPORT_TRANSACTIONS"}

----------------------------------------------------------------------------
(* Claims.                                                                 *)

\* C1: once the manifest is processed, exactly one controller tag is defined
\* (ST7789_DRIVER), TFT_SPI_MODE has been given exactly one value (SPI_MODE0)
\* and TFT_RGB_ORDER exactly one value (TFT_BGR); none of the three has a
\* second active definition.
C1_OneControllerModeOrder ==
  EndOfFile =>
    /\ DOMAIN macros \cap ControllerTags = {"ST7789_DRIVER"}
    /\ DefCount("ST7789_DRIVER") = 1
    /\ macros["ST7789_DRIVER"] = <<>>
    /\ DefCount("TFT_SPI_MODE") = 1
    /\ HasTag("TFT_SPI_MODE", "SPI_MODE0")
    /\ DefCount("TFT_RGB_ORDER") = 1
    /\ HasTag("TFT_RGB_ORDER", "TFT_BGR")

C1_Witness ==
  /\ EndOfFile
  /\ Defined("ST7789_DRIVER")
  /\ Defined("TFT_SPI_MODE")
  /\ Defined("TFT_RGB_ORDER")

\* C2: no symbol that selects or enables the parallel transport is ever
\* defined by the manifest, neither the board tag ESP32_PARALLEL nor the
\* flag TFT_PARALLEL_8_BIT.
C2_NoParallelSymbol ==
  \A s \in ParallelSymbols : ~Defined(s)

\* C3: once the manifest is processed all eight pin symbols are defined, with
\* MISO 19, MOSI 23, SCLK 18, CS 5, DC 2, RST 4, BL 15 and TOUCH_CS -1.
C3_PinMap ==
  EndOfFile =>
    /\ PinSymbols \subseteq DOMAIN macros
    /\ HasInt("TFT_MISO", 19)
    /\ HasInt("TFT_MOSI", 23)
    /\ HasInt("TFT_SCLK", 18)
    /\ HasInt("TFT_CS", 5)
    /\ HasInt("TFT_DC", 2)
    /\ HasInt("TFT_RST", 4)
    /\ HasInt("TFT_BL", 15)
    /\ HasInt("TOUCH_CS", 0 - 1)

C3_Witness ==
  /\ EndOfFile
  /\ \E i \in 1..Len(history) : history[i].name = "TOUCH_CS"
  /\ \E i \in 1..Len(history) : history[i].name = "TFT_MISO"

\* C4: once the manifest is processed SPI_FREQUENCY is 27000000, the
\* 40000000 rate was never defined, and TFT_SPI_MODE is SPI_MODE0.
C4_BusClockAndMode ==
  EndOfFile =>
    /\ HasInt("SPI_FREQUENCY", 27000000)
    /\ \A i \in 1..Len(history) :
         history[i].name = "SPI_FREQUENCY" => IntOf(history[i].value) = 27000000
    /\ HasTag("TFT_SPI_MODE", "SPI_MODE0")

C4_Witness ==
  /\ EndOfFile
  /\ Defined("SPI_FREQUENCY")
  /\ IsInt(macros["SPI_FREQUENCY"])
  /\ Defined("TFT_SPI_MODE")

\* C5: once the manifest is processed TFT_WIDTH is 240, TFT_HEIGHT is 320 and
\* the offset flag CGRAM_OFFSET is defined.
C5_Geometry ==
  EndOfFile =>
    /\ HasInt("TFT_WIDTH", 240)
    /\ HasInt("TFT_HEIGHT", 320)
    /\ Defined("CGRAM_OFFSET")

C5_Witness ==
  /\ EndOfFile
  /\ Defined("TFT_WIDTH")
  /\ Defined("TFT_HEIGHT")
  /\ DefCount("CGRAM_OFFSET") > 0

\* C6: once the manifest is processed the font symbols defined are exactly
\* LOAD_GLCD, LOAD_FONT2, LOAD_FONT4, LOAD_FONT6, LOAD_FONT7, LOAD_FONT8 and
\* SMOOTH_FONT; LOAD_FONT8N is not among them.
C6_FontSet ==
  EndOfFile =>
    /\ DOMAIN macros \cap FontSymbols =
         {"LOAD_GLCD", "LOAD_FONT2", "LOAD_FONT4", "LOAD_FONT6", "LOAD_FONT7",
          "LOAD_FONT8", "SMOOTH_FONT"}
    /\ Cardinality((DOMAIN macros \cap FontSymbols) \ {"SMOOTH_FONT"}) = 6
    /\ ~Defined("LOAD_FONT8N")

C6_Witness ==
  /\ EndOfFile
  /\ Defined("LOAD_FONT8")
  /\ Defined("SMOOTH_FONT")

\* C7: once the manifest is processed the channel order TFT_RGB_ORDER is
\* TFT_BGR, and the TFT_RGB assignment was never active.
C7_ChannelOrder ==
  EndOfFile =>
    /\ HasTag("TFT_RGB_ORDER", "TFT_BGR")
    /\ \A i \in 1..Len(history) :
         history[i].name = "TFT_RGB_ORDER" => history[i].value # <<Id("TFT_RGB")>>

C7_Witness ==
  /\ EndOfFile
  /\ DefCount("TFT_RGB_ORDER") > 0

\* C8: none of the five unused options is ever enabled: TFT_PARALLEL_8_BIT,
\* LOAD_FONT8N, SPI_TOUCH and SUPPORT_TRANSACTIONS are never defined, and
\* SPI_FREQUENCY is never defined as 40000000.
C8_UnusedDisabled ==
  /\ \A s \in UnusedFlags : ~Defined(s) /\ DefCount(s) = 0
  /\ \A i \in 1..Len(history) :
       history[i].name = "SPI_FREQUENCY" => IntOf(history[i].value) # 40000000
  /\ ~HasInt("SPI_FREQUENCY", 40000000)

C8_Witness ==
  /\ EndOfFile
  /\ Defined("SPI_FREQUENCY")
  /\ Len(history) > 0

\* C9: no step of the preprocessor removes a symbol from the macro table or
\* changes the value of a symbol already in it, and a #define only ever
\* names a symbol not yet defined.
C9_NeverMutated ==
  [][ /\ \A s \in DOMAIN macros : s \in DOMAIN macros' /\ macros'[s] = macros[s]
      /\ Len(history') > Len(history) =>
           history'[Len(history')].name \notin DOMAIN macros ]_vars

C9_Witness ==
  /\ EndOfFile
  /\ Len(history) > 1
  /\ \A i \in 1..Len(history) : macros[history[i].name] = history[i].value

\* C10: once the manifest is processed the seven wired pins are pairwise
\* distinct non-negative GPIO indices and TOUCH_CS is the only pin symbol
\* holding -1.
C10_PinsDistinct ==
  EndOfFile =>
    /\ \A p \in WiredPins :
         Defined(p) /\ IsInt(macros[p]) /\ IntOf(macros[p]) >= 0
    /\ \A p, q \in WiredPins :
         p # q => IntOf(macros[p]) # IntOf(macros[q])
    /\ {p \in PinSymbols : HasInt(p, 0 - 1)} = {"TOUCH_CS"}

C10_Witness ==
  /\ EndOfFile
  /\ WiredPins \subseteq DOMAIN macros
  /\ Defined("TOUCH_CS")

====
